---------------------------- MODULE Spec2Model ----------------------------
(***************************************************************************)
(* A model of package sub (src/sub.go, the Commander with the Output,      *)
(* Help and Flags fields, lines 213-430): the command registry, the        *)
(* dispatch of Commander.Run and the help command.                         *)
(*                                                                         *)
(* Strings are sequences of one-character strings, so that the order of    *)
(* names, the syntax of flag tokens and the trimming of help texts are     *)
(* computed as the code computes them.  Text written to a stream is a      *)
(* flat sequence of pieces: a literal of a format string is one piece, a   *)
(* formatted string value contributes its characters.                      *)
(***************************************************************************)
EXTENDS Integers, Sequences, FiniteSets, TLC

(***************************************************************************)
(* Bounds of the model.                                                    *)
(***************************************************************************)
\* the longest registry a Register call may still extend
MaxCmds == 3
\* the largest number of arguments after the program name
MaxArgs == 3

(***************************************************************************)
(* Strings.                                                                *)
(***************************************************************************)
\* the byte value of a character, for the characters that occur
Ord(ch) ==
    CASE ch = "\n" -> 10
      [] ch = " " -> 32
      [] ch = "-" -> 45
      [] ch = "=" -> 61
      [] ch = "A" -> 65
      [] ch = "H" -> 72
      [] ch = "a" -> 97
      [] ch = "e" -> 101
      [] ch = "f" -> 102
      [] ch = "g" -> 103
      [] ch = "h" -> 104
      [] ch = "l" -> 108
      [] ch = "p" -> 112
      [] ch = "t" -> 116
      [] ch = "v" -> 118

RECURSIVE StrLess(_, _)
\* Go's a < b on strings: bytewise lexicographic order
StrLess(a, b) ==
    IF b = <<>> THEN FALSE
    ELSE IF a = <<>> THEN TRUE
    ELSE IF Ord(Head(a)) < Ord(Head(b)) THEN TRUE
    ELSE IF Ord(Head(a)) > Ord(Head(b)) THEN FALSE
    ELSE StrLess(Tail(a), Tail(b))

\* unicode.IsSpace on the characters that occur
IsSpace(ch) == ch \in {" ", "\n"}

RECURSIVE TrimLeft(_)
TrimLeft(s) ==
    IF s # <<>> /\ IsSpace(Head(s)) THEN TrimLeft(Tail(s)) ELSE s

RECURSIVE TrimRight(_)
TrimRight(s) ==
    IF s # <<>> /\ IsSpace(s[Len(s)])
    THEN TrimRight(SubSeq(s, 1, Len(s) - 1))
    ELSE s

\* strings.TrimSpace
TrimSpace(s) == TrimRight(TrimLeft(s))

\* s[i:] of a Go slice or string, i counted from 0
From(s, i) == SubSeq(s, i + 1, Len(s))

(***************************************************************************)
(* The commands a client may register.  A command is known by an           *)
(* identifier; its methods are the operators Name, Desc, HelpOf, FlagsOf   *)
(* and, for its Run method, RunResult.                                     *)
(***************************************************************************)
HelpId == "helpCmd"

\* testA and testB are two different commands with the same name
CmdIds == {"testA", "testB", "aux", HelpId}

NoCmd == "nil"

Name(id) ==
    CASE id = "testA" -> <<"t">>
      [] id = "testB" -> <<"t">>
      [] id = "aux" -> <<"t", "a">>
      [] id = HelpId -> <<"h", "e", "l", "p">>

Desc(id) ==
    CASE id = "testA" -> <<"a simple test">>
      [] id = "testB" -> <<"another test">>
      [] id = "aux" -> <<"an auxiliary command">>
      [] id = HelpId -> <<"show help for commands">>

\* the long help text, before trimming
HelpOf(id) ==
    CASE id = "testA" -> <<"\n", "H", "\n">>
      [] id = "testB" -> <<>>
      [] id = "aux" -> <<"A">>
      [] id = HelpId -> <<"h", "e", "l", "p", " ", "t", "e", "l", "l", "s">>

\* a declared flag: its name, whether it is a boolean flag, and the line
\* PrintDefaults writes for it
FlagF == [name |-> <<"f">>, isBool |-> FALSE,
          defaults |-> <<"  -f string\n    \ta flag test (default \"test\")\n">>]
FlagV == [name |-> <<"v">>, isBool |-> TRUE,
          defaults |-> <<"  -v\tverbose\n">>]

\* the flags the command's Flags method declares into a FlagSet
FlagsOf(id) ==
    CASE id = "testA" -> {FlagF}
      [] id = "testB" -> {}
      [] id = "aux" -> {}
      [] id = HelpId -> {}

\* the flags the global declarator (Commander.Flags, when set) declares
GlobalFlags == {FlagV}

(***************************************************************************)
(* Errors.  An error value is known by its message, a sequence of pieces;  *)
(* the empty sequence is Go's nil error.                                   *)
(***************************************************************************)
NilErr == <<>>

\* flag.ErrHelp
ErrHelp == <<"flag: help requested">>

\* the error the Run method of testB returns
ErrCmd == <<"testB failed">>

\* what the command's Run method returns (the help command: see HelpRun)
RunResult(id) ==
    CASE id = "testA" -> NilErr
      [] id = "testB" -> ErrCmd
      [] id = "aux" -> NilErr

(***************************************************************************)
(* The argument lists Run is called with.                                  *)
(***************************************************************************)
\* args[0], the invocation name
Prog == <<"p", "g">>

\* filepath.Base(os.Args[0]) of the process, used while Commander.name is ""
OsProg == <<"o", "s">>

Tokens ==
    { <<"-", "v">>, <<"-", "f">>, <<"-", "h">>, <<"-", "-">>,
      <<"t">>, <<"h", "e", "l", "p">> }

ArgLists == UNION { [1..n -> Tokens] : n \in 0..MaxArgs }

(***************************************************************************)
(* The state.                                                              *)
(***************************************************************************)
VARIABLES
    commands,   \* Commander.commands: the registry, a sequence of commands
    cHelp,      \* Commander.Help
    cFlags,     \* Commander.Flags: "nil" or "set"
    cOutput,    \* Commander.Output: "nil" or "set"
    name,       \* Commander.name
    latest,     \* history: for each name, the command registered last
    pc,         \* "idle", or which call has just returned: "returned"
                \* (Commander.Run) or "helped" (the help command's Run)
    args,       \* the arguments of the call
    exit,       \* the return statement by which Run returned
    grest,      \* Run's fset.Args(), once the global parse has succeeded
    cmd,        \* Run's cmd
    rest,       \* Run's sub.Args(), once the subcommand's parse has succeeded
    ret,        \* what the call returned
    written,    \* what the call has written, in order: records [dst, text],
                \* dst the stream the piece went to
    calls       \* the methods of commands and the declarator the call has
                \* invoked, in order: records [op, cmd, args]

vars == <<commands, cHelp, cFlags, cOutput, name, latest, pc, args, exit,
          grest, cmd, rest, ret, written, calls>>

(***************************************************************************)
(* The registry.                                                           *)
(***************************************************************************)
RECURSIVE SearchLoop(_, _, _, _)
\* sort.Search's loop with f(h) == cmdName < cs[h].Name(), h counted from 0
SearchLoop(cs, cmdName, i, j) ==
    IF i < j
    THEN LET h == (i + j) \div 2
         IN  IF ~StrLess(cmdName, Name(cs[h + 1]))
             THEN SearchLoop(cs, cmdName, h + 1, j)
             ELSE SearchLoop(cs, cmdName, i, h)
    ELSE i

\* a Register that forgets the order of the names: it appends
Search_Append(cs, cmdName) == Len(cs)

\* the index Register computes: the first entry whose name is greater
Search(cs, cmdName) == SearchLoop(cs, cmdName, 0, Len(cs))

\* Commander.Register: the registry after registering the command id
Registered(cs, id) ==
    LET i == Search(cs, Name(id))
    IN  IF i < Len(cs) /\ Name(id) = Name(cs[i + 1])
        THEN [cs EXCEPT ![i + 1] = id]
        ELSE SubSeq(cs, 1, i) \o <<id>> \o From(cs, i)

RECURSIVE get(_, _)
\* Commander.get: the first entry with that name, or NoCmd
get(cs, n) ==
    IF cs = <<>> THEN NoCmd
    ELSE IF Name(Head(cs)) = n THEN Head(cs)
    ELSE get(Tail(cs), n)

(***************************************************************************)
(* The flag parser Run and the help command use: flag.FlagSet of Go's      *)
(* standard library, with the error handling flag.ContinueOnError.  A      *)
(* FlagSet is known by the set of flags declared into it.                  *)
(***************************************************************************)
\* the pieces of a write to dst
W(dst, pieces) == [i \in 1..Len(pieces) |-> [dst |-> dst, text |-> pieces[i]]]

\* the declared flag with that name, as a set of at most one element
Formal(formal, n) == {f \in formal : f.name = n}

RECURSIVE EqualsAt(_, _)
\* the first i >= 1 (counted from 0) with n[i] = '=', or Len(n) if none
EqualsAt(n, i) ==
    IF i >= Len(n) THEN Len(n)
    ELSE IF n[i + 1] = "=" THEN i
    ELSE EqualsAt(n, i + 1)

\* strconv.ParseBool accepts these
BoolWords ==
    { <<"1">>, <<"t">>, <<"T">>, <<"t", "r", "u", "e">>,
      <<"T", "R", "U", "E">>, <<"T", "r", "u", "e">>,
      <<"0">>, <<"f">>, <<"F">>, <<"f", "a", "l", "s", "e">>,
      <<"F", "A", "L", "S", "E">>, <<"F", "a", "l", "s", "e">> }

\* a token that parseOne does not take for a flag: it ends the parse and
\* stays in the arguments
NonFlag(s) == Len(s) < 2 \/ s[1] # "-"

\* FlagSet.parseOne on the remaining arguments as: whether a flag was seen,
\* the error, the arguments left, and the message failf wrote (failf and
\* the help case call FlagSet.usage, so usage is called iff err is not nil)
ParseOne(formal, as) ==
    LET none == [seen |-> FALSE, err |-> NilErr, as |-> as, msg |-> <<>>]
        fail(m) == [seen |-> FALSE, err |-> m, as |-> as, msg |-> m \o <<"\n">>]
    IN
    IF as = <<>> THEN none
    ELSE
    LET s == as[1] IN
    IF NonFlag(s) THEN none
    ELSE
    LET numMinuses == IF s[2] = "-" THEN 2 ELSE 1 IN
    IF numMinuses = 2 /\ Len(s) = 2
    THEN [none EXCEPT !.as = Tail(as)]
    ELSE
    LET full == From(s, numMinuses) IN
    IF full = <<>> \/ full[1] = "-" \/ full[1] = "="
    THEN fail(<<"bad flag syntax: ">> \o s)
    ELSE
    LET eq == EqualsAt(full, 1)
        hasValue == eq < Len(full)
        value == IF hasValue THEN From(full, eq + 1) ELSE <<>>
        n == SubSeq(full, 1, eq)
        decl == Formal(formal, n)
        as1 == Tail(as)
    IN
    IF decl = {}
    THEN IF n = <<"h", "e", "l", "p">> \/ n = <<"h">>
         THEN [seen |-> FALSE, err |-> ErrHelp, as |-> as1, msg |-> <<>>]
         ELSE [fail(<<"flag provided but not defined: -">> \o n)
                 EXCEPT !.as = as1]
    ELSE
    LET f == CHOOSE f \in decl : TRUE IN
    IF f.isBool
    THEN IF hasValue /\ value \notin BoolWords
         THEN [fail(<<"invalid boolean value \"">> \o value \o <<"\" for -">>
                      \o n \o <<": parse error">>) EXCEPT !.as = as1]
         ELSE [seen |-> TRUE, err |-> NilErr, as |-> as1, msg |-> <<>>]
    ELSE IF ~hasValue /\ as1 = <<>>
         THEN [fail(<<"flag needs an argument: -">> \o n) EXCEPT !.as = as1]
         ELSE [seen |-> TRUE, err |-> NilErr,
               as |-> IF hasValue THEN as1 ELSE Tail(as1), msg |-> <<>>]

RECURSIVE Parse(_, _)
\* FlagSet.Parse(as): the error, f.Args() afterwards and failf's message
Parse(formal, as) ==
    LET r == ParseOne(formal, as)
    IN  IF r.seen THEN Parse(formal, r.as)
        ELSE [err |-> r.err, rest |-> r.as, msg |-> r.msg]

RECURSIVE SortedFlags(_)
\* the declared flags in the order of their names (FlagSet.VisitAll)
SortedFlags(formal) ==
    IF formal = {} THEN <<>>
    ELSE LET f == CHOOSE f \in formal :
                      \A g \in formal : g = f \/ StrLess(f.name, g.name)
         IN  <<f>> \o SortedFlags(formal \ {f})

RECURSIVE Concat(_)
Concat(ss) == IF ss = <<>> THEN <<>> ELSE Head(ss) \o Concat(Tail(ss))

\* the text FlagSet.PrintDefaults writes
PrintDefaults(formal) ==
    LET fs == SortedFlags(formal)
    IN  Concat([i \in 1..Len(fs) |-> fs[i].defaults])

(***************************************************************************)
(* The help command.                                                       *)
(***************************************************************************)
\* Commander.output as the stream a write goes to
output(out) == IF out = "nil" THEN "Stderr" ELSE "Output"

\* a record of the calls log
Call(op, id, as) == [op |-> op, cmd |-> id, args |-> as]

\* the formal flags of the global FlagSet
GlobalFormal(fl) == IF fl = "nil" THEN {} ELSE GlobalFlags

\* fmt's %q of a string of plain characters
Quote(s) == <<"\"">> \o s \o <<"\"">>

\* a notice that goes to os.Stderr whatever Commander.Output is
NoSuchCommand_Stderr(out, tok) ==
    W("Stderr", <<"Error: No such command: ">> \o Quote(tok) \o <<"\n\n">>)

\* the notice Run and the help command write for an unknown command
NoSuchCommand(out, tok) ==
    W(output(out), <<"Error: No such command: ">> \o Quote(tok) \o <<"\n\n">>)

\* one line of the "Commands:" listing
CommandLine(id) == <<"\t">> \o Name(id) \o <<"\t\t">> \o Desc(id) \o <<"\n">>

\* a summary help that shows the name of the process whatever Run was given
HelpSummary_OsName(cs, help, fl, out, nm) ==
    LET shown == OsProg
        globalOptions == IF fl # "nil" THEN <<" [global options]">> ELSE <<>>
        usage == W(output(out),
                   <<"Usage: ">> \o shown \o globalOptions
                     \o <<" <subcommand> [subcommand arguments]\n">>)
        text == IF help # <<>>
                THEN W(output(out), <<"\n">> \o TrimSpace(help) \o <<"\n">>)
                ELSE <<>>
        global == IF fl # "nil"
                  THEN W(output(out), <<"\nGlobal Options:\n">>)
                         \o W("Stderr", PrintDefaults(GlobalFormal(fl)))
                  ELSE <<>>
        listing == W(output(out), <<"\nCommands:\n">>)
                     \o W(output(out),
                          Concat([i \in 1..Len(cs) |-> CommandLine(cs[i])]))
    IN  [w |-> usage \o text \o global \o listing,
         calls |-> <<Call("HelpRun", HelpId, <<>>)>>
                     \o IF fl # "nil" THEN <<Call("Flags", "global", <<>>)>>
                        ELSE <<>>,
         ret |-> NilErr]

\* a summary help that writes the global options before the help text
HelpSummary_GlobalFirst(cs, help, fl, out, nm) ==
    LET shown == IF nm = <<>> THEN OsProg ELSE nm
        globalOptions == IF fl # "nil" THEN <<" [global options]">> ELSE <<>>
        usage == W(output(out),
                   <<"Usage: ">> \o shown \o globalOptions
                     \o <<" <subcommand> [subcommand arguments]\n">>)
        text == IF help # <<>>
                THEN W(output(out), <<"\n">> \o TrimSpace(help) \o <<"\n">>)
                ELSE <<>>
        global == IF fl # "nil"
                  THEN W(output(out), <<"\nGlobal Options:\n">>)
                         \o W("Stderr", PrintDefaults(GlobalFormal(fl)))
                  ELSE <<>>
        listing == W(output(out), <<"\nCommands:\n">>)
                     \o W(output(out),
                          Concat([i \in 1..Len(cs) |-> CommandLine(cs[i])]))
    IN  [w |-> usage \o global \o text \o listing,
         calls |-> <<Call("HelpRun", HelpId, <<>>)>>
                     \o IF fl # "nil" THEN <<Call("Flags", "global", <<>>)>>
                        ELSE <<>>,
         ret |-> NilErr]

\* helpCmd.Run(nil) on a Commander with these fields: the writes and calls
HelpSummary(cs, help, fl, out, nm) ==
    LET shown == IF nm = <<>> THEN OsProg ELSE nm
        globalOptions == IF fl # "nil" THEN <<" [global options]">> ELSE <<>>
        usage == W(output(out),
                   <<"Usage: ">> \o shown \o globalOptions
                     \o <<" <subcommand> [subcommand arguments]\n">>)
        text == IF help # <<>>
                THEN W(output(out), <<"\n">> \o TrimSpace(help) \o <<"\n">>)
                ELSE <<>>
        \* the FlagSet made here keeps the default output, os.Stderr
        global == IF fl # "nil"
                  THEN W(output(out), <<"\nGlobal Options:\n">>)
                         \o W("Stderr", PrintDefaults(GlobalFormal(fl)))
                  ELSE <<>>
        listing == W(output(out), <<"\nCommands:\n">>)
                     \o W(output(out),
                          Concat([i \in 1..Len(cs) |-> CommandLine(cs[i])]))
    IN  [w |-> usage \o text \o global \o listing,
         calls |-> <<Call("HelpRun", HelpId, <<>>)>>
                     \o IF fl # "nil" THEN <<Call("Flags", "global", <<>>)>>
                        ELSE <<>>,
         ret |-> NilErr]

\* a detail help that writes the command's help text as it is
HelpDetail_Untrimmed(cs, out, n) ==
    LET id == get(cs, n)
        text == IF HelpOf(id) # <<>>
                THEN W(output(out), HelpOf(id) \o <<"\n">>)
                ELSE <<>>
        optionBuf == PrintDefaults(FlagsOf(id))
        options == IF Len(optionBuf) > 0
                   THEN W(output(out), <<"\nOptions:\n">>)
                          \o W(output(out), optionBuf)
                   ELSE <<>>
    IN  [w |-> text \o options,
         calls |-> <<Call("HelpRun", HelpId, <<n>>), Call("Flags", id, <<>>)>>,
         ret |-> NilErr]

\* helpCmd.Run(<<n>>), n the name of a registered command
HelpDetail(cs, out, n) ==
    LET id == get(cs, n)
        text == IF HelpOf(id) # <<>>
                THEN W(output(out), TrimSpace(HelpOf(id)) \o <<"\n">>)
                ELSE <<>>
        optionBuf == PrintDefaults(FlagsOf(id))
        options == IF Len(optionBuf) > 0
                   THEN W(output(out), <<"\nOptions:\n">>)
                          \o W(output(out), optionBuf)
                   ELSE <<>>
    IN  [w |-> text \o options,
         calls |-> <<Call("HelpRun", HelpId, <<n>>), Call("Flags", id, <<>>)>>,
         ret |-> NilErr]

\* a help command that keeps the state the Commander had when the help
\* command was made: only itself registered, no help text, no declarator
HelpRun_Snapshot(cs, help, fl, out, nm, as) ==
    IF Len(as) = 0 THEN HelpSummary(<<HelpId>>, <<>>, "nil", out, <<>>)
    ELSE IF get(<<HelpId>>, as[1]) = NoCmd
    THEN LET sum == HelpSummary(<<HelpId>>, <<>>, "nil", out, <<>>)
         IN  [w |-> NoSuchCommand(out, as[1]) \o sum.w,
              calls |-> <<Call("HelpRun", HelpId, as)>> \o sum.calls,
              ret |-> ErrHelp]
    ELSE HelpDetail(<<HelpId>>, out, as[1])

\* a help command that returns what its summary returns for an unknown name
HelpRun_NoSentinel(cs, help, fl, out, nm, as) ==
    IF Len(as) = 0 THEN HelpSummary(cs, help, fl, out, nm)
    ELSE IF get(cs, as[1]) = NoCmd
    THEN LET sum == HelpSummary(cs, help, fl, out, nm)
         IN  [w |-> NoSuchCommand(out, as[1]) \o sum.w,
              calls |-> <<Call("HelpRun", HelpId, as)>> \o sum.calls,
              ret |-> sum.ret]
    ELSE HelpDetail(cs, out, as[1])

\* helpCmd.Run(as)
HelpRun(cs, help, fl, out, nm, as) ==
    IF Len(as) = 0 THEN HelpSummary(cs, help, fl, out, nm)
    ELSE IF get(cs, as[1]) = NoCmd
    THEN LET sum == HelpSummary(cs, help, fl, out, nm)
         IN  [w |-> NoSuchCommand(out, as[1]) \o sum.w,
              calls |-> <<Call("HelpRun", HelpId, as)>> \o sum.calls,
              ret |-> ErrHelp]
    ELSE HelpDetail(cs, out, as[1])

(***************************************************************************)
(* Commander.Run.                                                          *)
(***************************************************************************)
\* a Run that turns every error of the command into flag.ErrHelp
RunExecute_AsHelp(cs, help, fl, out, nm, grest0, found, declared, subArgs) ==
    LET h == HelpRun(cs, help, fl, out, nm, subArgs)
        run == <<Call("Run", found, subArgs)>>
        err == IF found = HelpId THEN h.ret ELSE RunResult(found)
    IN  [exit |-> "executed", grest |-> grest0, cmd |-> found,
         rest |-> subArgs,
         ret |-> IF err # NilErr THEN ErrHelp ELSE NilErr,
         written |-> IF found = HelpId THEN h.w ELSE <<>>,
         calls |-> declared \o run \o IF found = HelpId THEN h.calls ELSE <<>>]

\* Run's last statement, return cmd.Run(sub.Args()): the outcome of Run
RunExecute(cs, help, fl, out, nm, grest0, found, declared, subArgs) ==
    LET h == HelpRun(cs, help, fl, out, nm, subArgs)
        run == <<Call("Run", found, subArgs)>>
    IN  [exit |-> "executed", grest |-> grest0, cmd |-> found,
         rest |-> subArgs,
         ret |-> IF found = HelpId THEN h.ret ELSE RunResult(found),
         written |-> IF found = HelpId THEN h.w ELSE <<>>,
         calls |-> declared \o run \o IF found = HelpId THEN h.calls ELSE <<>>]

\* a Run that leaves the command's name in what the subcommand's FlagSet
\* parses
SubArgs_KeepName(grest0) == grest0

\* fset.Args()[1:], what the subcommand's FlagSet parses
SubArgs(grest0) == From(grest0, 1)

\* Run from the creation of the subcommand's FlagSet: sub.Usage,
\* cmd.Flags(sub) and sub.Parse(fset.Args()[1:])
RunSub(cs, help, fl, out, nm, grest0, found, declared) ==
    LET p == Parse(FlagsOf(found), SubArgs(grest0))
        declared1 == declared \o <<Call("Flags", found, <<>>)>>
        usage == HelpRun(cs, help, fl, out, nm, <<Name(found)>>)
    IN  IF p.err # NilErr
        THEN [exit |-> "subparse", grest |-> grest0, cmd |-> found,
              rest |-> <<>>, ret |-> p.err,
              written |-> W("Stderr", p.msg) \o usage.w,
              calls |-> declared1 \o usage.calls]
        ELSE RunExecute(cs, help, fl, out, nm, grest0, found, declared1,
                        p.rest)

\* a Run that, given no subcommand, returns flag.ErrHelp without the usage
RunLookup_Silent(cs, help, fl, out, nm, grest0, declared) ==
    LET usage == HelpSummary(cs, help, fl, out, nm)
        found == get(cs, grest0[1])
    IN  IF Len(grest0) = 0
        THEN [exit |-> "noargs", grest |-> grest0, cmd |-> NoCmd,
              rest |-> <<>>, ret |-> ErrHelp,
              written |-> <<>>, calls |-> declared]
        ELSE IF found = NoCmd
        THEN [exit |-> "nocmd", grest |-> grest0, cmd |-> NoCmd,
              rest |-> <<>>, ret |-> ErrHelp,
              written |-> NoSuchCommand(out, grest0[1]) \o usage.w,
              calls |-> declared \o usage.calls]
        ELSE RunSub(cs, help, fl, out, nm, grest0, found, declared)

\* Run from the test of fset.NArg(): the lookup of the command
RunLookup(cs, help, fl, out, nm, grest0, declared) ==
    LET usage == HelpSummary(cs, help, fl, out, nm)
        found == get(cs, grest0[1])
    IN  IF Len(grest0) = 0
        THEN [exit |-> "noargs", grest |-> grest0, cmd |-> NoCmd,
              rest |-> <<>>, ret |-> ErrHelp,
              written |-> usage.w, calls |-> declared \o usage.calls]
        ELSE IF found = NoCmd
        THEN [exit |-> "nocmd", grest |-> grest0, cmd |-> NoCmd,
              rest |-> <<>>, ret |-> ErrHelp,
              written |-> NoSuchCommand(out, grest0[1]) \o usage.w,
              calls |-> declared \o usage.calls]
        ELSE RunSub(cs, help, fl, out, nm, grest0, found, declared)

\* a Run that answers every failure of the global parse with flag.ErrHelp
RunOutcome_AsHelp(cs, help, fl, out, argv) ==
    LET nm == argv[1]
        declared == IF fl # "nil"
                    THEN <<Call("Flags", "global", <<>>)>> ELSE <<>>
        p == Parse(GlobalFormal(fl), From(argv, 1))
        usage == HelpSummary(cs, help, fl, out, nm)
    IN  IF p.err # NilErr
        THEN [exit |-> "globalparse", grest |-> <<>>, cmd |-> NoCmd,
              rest |-> <<>>, ret |-> ErrHelp,
              written |-> W("Stderr", p.msg) \o usage.w,
              calls |-> declared \o usage.calls]
        ELSE RunLookup(cs, help, fl, out, nm, p.rest, declared)

\* a Run that calls the declarator only when it is given arguments
RunOutcome_LateDeclare(cs, help, fl, out, argv) ==
    LET nm == argv[1]
        declared == IF fl # "nil" /\ Len(argv) > 1
                    THEN <<Call("Flags", "global", <<>>)>> ELSE <<>>
        p == Parse(GlobalFormal(fl), From(argv, 1))
        usage == HelpSummary(cs, help, fl, out, nm)
    IN  IF p.err # NilErr
        THEN [exit |-> "globalparse", grest |-> <<>>, cmd |-> NoCmd,
              rest |-> <<>>, ret |-> p.err,
              written |-> W("Stderr", p.msg) \o usage.w,
              calls |-> declared \o usage.calls]
        ELSE RunLookup(cs, help, fl, out, nm, p.rest, declared)

\* Commander.Run(argv) on a Commander with these fields: the outcome
RunOutcome(cs, help, fl, out, argv) ==
    LET nm == argv[1]
        declared == IF fl # "nil"
                    THEN <<Call("Flags", "global", <<>>)>> ELSE <<>>
        p == Parse(GlobalFormal(fl), From(argv, 1))
        usage == HelpSummary(cs, help, fl, out, nm)
    IN  IF p.err # NilErr
        THEN [exit |-> "globalparse", grest |-> <<>>, cmd |-> NoCmd,
              rest |-> <<>>, ret |-> p.err,
              written |-> W("Stderr", p.msg) \o usage.w,
              calls |-> declared \o usage.calls]
        ELSE RunLookup(cs, help, fl, out, nm, p.rest, declared)

(***************************************************************************)
(* The operations.                                                         *)
(***************************************************************************)
\* the names of the commands
Names == {Name(id) : id \in CmdIds}

\* a Commander that comes with its help command in the registry
Init_WithHelp ==
    /\ commands = <<HelpId>>
    /\ cHelp = <<>>
    /\ cFlags = "nil"
    /\ cOutput = "nil"
    /\ name = <<>>
    /\ latest = [n \in Names |-> NoCmd]
    /\ pc = "idle"
    /\ args = <<>>
    /\ exit = "none"
    /\ grest = <<>>
    /\ cmd = NoCmd
    /\ rest = <<>>
    /\ ret = NilErr
    /\ written = <<>>
    /\ calls = <<>>

\* the zero value of a Commander; no call has been made
Init ==
    /\ commands = <<>>
    /\ cHelp = <<>>
    /\ cFlags = "nil"
    /\ cOutput = "nil"
    /\ name = <<>>
    /\ latest = [n \in Names |-> NoCmd]
    /\ pc = "idle"
    /\ args = <<>>
    /\ exit = "none"
    /\ grest = <<>>
    /\ cmd = NoCmd
    /\ rest = <<>>
    /\ ret = NilErr
    /\ written = <<>>
    /\ calls = <<>>

\* the variables of a call
call == <<pc, args, exit, grest, cmd, rest, ret, written, calls>>

\* the program help texts a client sets
HelpTexts == {<<>>, <<"\n", "E", "\n">>}

\* c.Register(id)
Register(id) ==
    /\ pc = "idle"
    /\ Len(commands) < MaxCmds
    /\ commands' = Registered(commands, id)
    /\ latest' = [latest EXCEPT ![Name(id)] = id]
    /\ UNCHANGED <<cHelp, cFlags, cOutput, name>>
    /\ UNCHANGED call

\* c.Help = h
SetHelp(h) ==
    /\ pc = "idle"
    /\ cHelp # h
    /\ cHelp' = h
    /\ UNCHANGED <<commands, cFlags, cOutput, name, latest>>
    /\ UNCHANGED call

\* c.Flags = a declarator, or nil
SetFlags(fl) ==
    /\ pc = "idle"
    /\ cFlags # fl
    /\ cFlags' = fl
    /\ UNCHANGED <<commands, cHelp, cOutput, name, latest>>
    /\ UNCHANGED call

\* c.Output = a writer, or nil
SetOutput(out) ==
    /\ pc = "idle"
    /\ cOutput # out
    /\ cOutput' = out
    /\ UNCHANGED <<commands, cHelp, cFlags, name, latest>>
    /\ UNCHANGED call

\* c.Run(<<Prog>> \o as), as one of lists
Run(lists) ==
    /\ pc = "idle"
    /\ \E as \in lists :
       \E r \in {RunOutcome(commands, cHelp, cFlags, cOutput, <<Prog>> \o as)} :
           /\ args' = <<Prog>> \o as
           /\ name' = Prog
           /\ exit' = r.exit
           /\ grest' = r.grest
           /\ cmd' = r.cmd
           /\ rest' = r.rest
           /\ ret' = r.ret
           /\ written' = r.written
           /\ calls' = r.calls
    /\ pc' = "returned"
    /\ UNCHANGED <<commands, cHelp, cFlags, cOutput, latest>>

\* a help command that stores the name it shows in the Commander
HelpCall_KeepsName(as) ==
    /\ pc = "idle"
    /\ \E h \in {HelpRun(commands, cHelp, cFlags, cOutput, name, as)} :
           /\ written' = h.w
           /\ calls' = h.calls
           /\ ret' = h.ret
    /\ pc' = "helped"
    /\ args' = as
    /\ name' = IF name = <<>> THEN OsProg ELSE name
    /\ UNCHANGED <<exit, grest, cmd, rest>>
    /\ UNCHANGED <<commands, cHelp, cFlags, cOutput, latest>>

\* c.HelpCmd().Run(as), called by the client
HelpCall(as) ==
    /\ pc = "idle"
    /\ \E h \in {HelpRun(commands, cHelp, cFlags, cOutput, name, as)} :
           /\ written' = h.w
           /\ calls' = h.calls
           /\ ret' = h.ret
    /\ pc' = "helped"
    /\ args' = as
    /\ UNCHANGED <<exit, grest, cmd, rest>>
    /\ UNCHANGED <<commands, cHelp, cFlags, cOutput, name, latest>>

\* the call has returned to the client: its frame is gone, and the client
\* goes on with the same Commander
Return ==
    /\ pc \in {"returned", "helped"}
    /\ pc' = "idle"
    /\ args' = <<>>
    /\ exit' = "none"
    /\ grest' = <<>>
    /\ cmd' = NoCmd
    /\ rest' = <<>>
    /\ ret' = NilErr
    /\ written' = <<>>
    /\ calls' = <<>>
    /\ UNCHANGED <<commands, cHelp, cFlags, cOutput, name, latest>>

\* the arguments a client calls the help command with
HelpArgs == {<<>>} \cup {<<n>> : n \in Names}

Next ==
    \/ \E id \in CmdIds : Register(id)
    \/ \E h \in HelpTexts : SetHelp(h)
    \/ \E fl \in {"nil", "set"} : SetFlags(fl)
    \/ \E out \in {"nil", "set"} : SetOutput(out)
    \/ Run(ArgLists)
    \/ \E as \in HelpArgs : HelpCall(as)
    \/ Return

Spec == Init /\ [][Next]_vars

(***************************************************************************)
(* The Commander of TestSimpleCmd (sub_test.go): Output and Help are set   *)
(* and commands are registered before Run is called, here with longer      *)
(* argument lists.                                                         *)
(***************************************************************************)
\* the largest number of arguments after the program name in SpecTest
MaxTestArgs == 5

TestArgLists == UNION { [1..n -> Tokens] : n \in 0..MaxTestArgs }

\* registries the Register calls of a test make
TestRegistries ==
    { Registered(Registered(<<>>, HelpId), "testA"),
      Registered(Registered(Registered(<<>>, "testB"), HelpId), "aux"),
      Registered(Registered(<<>>, "testA"), "testB") }

\* for each name, the last entry of that name: Register puts a command
\* after the entries of its name
LatestOf(cs) ==
    [n \in Names |->
        LET at == {i \in 1..Len(cs) : Name(cs[i]) = n}
        IN  IF at = {} THEN NoCmd
            ELSE cs[CHOOSE i \in at : \A j \in at : j <= i]]

InitTest ==
    /\ commands \in TestRegistries
    /\ cHelp = <<"\n", "E", "\n">>
    /\ cFlags \in {"nil", "set"}
    /\ cOutput = "set"
    /\ name = <<>>
    /\ latest = LatestOf(commands)
    /\ pc = "idle"
    /\ args = <<>>
    /\ exit = "none"
    /\ grest = <<>>
    /\ cmd = NoCmd
    /\ rest = <<>>
    /\ ret = NilErr
    /\ written = <<>>
    /\ calls = <<>>

NextTest ==
    \/ Run(TestArgLists)
    \/ Return

SpecTest == InitTest /\ [][NextTest]_vars

(***************************************************************************)
(* Commander.Run statement by statement: the same Run, with one step for   *)
(* each stage of its body, on the Commander of the test.  A step that      *)
(* returns writes the usage first, as the code does.                       *)
(***************************************************************************)
\* the fields of the Commander a Run leaves alone
config == <<commands, cHelp, cFlags, cOutput, latest>>

\* c.name = args[0], the global FlagSet and c.Flags(fset)
StepBegin(lists) ==
    /\ pc = "idle"
    /\ \E as \in lists : args' = <<Prog>> \o as
    /\ name' = Prog
    /\ calls' = IF cFlags # "nil"
                THEN <<Call("Flags", "global", <<>>)>> ELSE <<>>
    /\ pc' = "parse"
    /\ UNCHANGED <<exit, grest, cmd, rest, ret, written>>
    /\ UNCHANGED config

\* err := fset.Parse(args[1:]) and the return of its error
StepGlobalParse ==
    /\ pc = "parse"
    /\ \E p \in {Parse(GlobalFormal(cFlags), From(args, 1))} :
       IF p.err # NilErr
       THEN \E u \in {HelpSummary(commands, cHelp, cFlags, cOutput, name)} :
               /\ written' = W("Stderr", p.msg) \o u.w
               /\ calls' = calls \o u.calls
               /\ ret' = p.err
               /\ exit' = "globalparse"
               /\ pc' = "returned"
               /\ grest' = grest
       ELSE /\ grest' = p.rest
            /\ pc' = "lookup"
            /\ UNCHANGED <<written, calls, ret, exit>>
    /\ UNCHANGED <<args, name, cmd, rest>>
    /\ UNCHANGED config

\* the test of fset.NArg() and cmd := c.get(fset.Arg(0))
StepLookup ==
    /\ pc = "lookup"
    /\ \E u \in {HelpSummary(commands, cHelp, cFlags, cOutput, name)} :
       IF Len(grest) = 0
       THEN /\ written' = u.w
            /\ calls' = calls \o u.calls
            /\ ret' = ErrHelp
            /\ exit' = "noargs"
            /\ pc' = "returned"
            /\ cmd' = cmd
       ELSE IF get(commands, grest[1]) = NoCmd
       THEN /\ written' = NoSuchCommand(cOutput, grest[1]) \o u.w
            /\ calls' = calls \o u.calls
            /\ ret' = ErrHelp
            /\ exit' = "nocmd"
            /\ pc' = "returned"
            /\ cmd' = cmd
       ELSE /\ cmd' = get(commands, grest[1])
            /\ pc' = "declare"
            /\ UNCHANGED <<written, calls, ret, exit>>
    /\ UNCHANGED <<args, name, grest, rest>>
    /\ UNCHANGED config

\* the subcommand's FlagSet, sub.Usage and cmd.Flags(sub)
StepDeclare ==
    /\ pc = "declare"
    /\ calls' = calls \o <<Call("Flags", cmd, <<>>)>>
    /\ pc' = "subparse"
    /\ UNCHANGED <<args, name, exit, grest, cmd, rest, ret, written>>
    /\ UNCHANGED config

\* a Run that goes on to the command whatever sub.Parse returned
StepSubParse_Ignore ==
    /\ pc = "subparse"
    /\ rest' = Parse(FlagsOf(cmd), SubArgs(grest)).rest
    /\ pc' = "execute"
    /\ UNCHANGED <<args, name, exit, grest, cmd, ret, written, calls>>
    /\ UNCHANGED config

\* err = sub.Parse(fset.Args()[1:]) and the return of its error
StepSubParse ==
    /\ pc = "subparse"
    /\ \E p \in {Parse(FlagsOf(cmd), SubArgs(grest))} :
       IF p.err # NilErr
       THEN \E u \in {HelpRun(commands, cHelp, cFlags, cOutput, name,
                              <<Name(cmd)>>)} :
               /\ written' = W("Stderr", p.msg) \o u.w
               /\ calls' = calls \o u.calls
               /\ ret' = p.err
               /\ exit' = "subparse"
               /\ pc' = "returned"
               /\ rest' = rest
       ELSE /\ rest' = p.rest
            /\ pc' = "execute"
            /\ UNCHANGED <<written, calls, ret, exit>>
    /\ UNCHANGED <<args, name, grest, cmd>>
    /\ UNCHANGED config

\* return cmd.Run(sub.Args())
StepExecute ==
    /\ pc = "execute"
    /\ \E h \in {HelpRun(commands, cHelp, cFlags, cOutput, name, rest)} :
          /\ calls' = calls \o <<Call("Run", cmd, rest)>>
                        \o (IF cmd = HelpId THEN h.calls ELSE <<>>)
          /\ written' = IF cmd = HelpId THEN h.w ELSE <<>>
          /\ ret' = IF cmd = HelpId THEN h.ret ELSE RunResult(cmd)
    /\ exit' = "executed"
    /\ pc' = "returned"
    /\ UNCHANGED <<args, name, grest, cmd, rest>>
    /\ UNCHANGED config

NextSteps ==
    \/ StepBegin(ArgLists)
    \/ StepGlobalParse
    \/ StepLookup
    \/ StepDeclare
    \/ StepSubParse
    \/ StepExecute
    \/ Return

SpecSteps == InitTest /\ [][NextSteps]_vars

\* the steps arrive where Run as a whole arrives
StepsAgreeWithRun ==
    pc = "returned" =>
        [exit |-> exit, grest |-> grest, cmd |-> cmd, rest |-> rest,
         ret |-> ret, written |-> written, calls |-> calls]
          = RunOutcome(commands, cHelp, cFlags, cOutput, args)

(***************************************************************************)
(* A Commander whose help command is made and registered first, before     *)
(* anything else is set or registered, and a client that calls the help    *)
(* command twice in a row.                                                 *)
(***************************************************************************)
\* c := &Commander{}; c.Register(c.HelpCmd())
InitHelp ==
    /\ commands = Registered(<<>>, HelpId)
    /\ cHelp = <<>>
    /\ cFlags = "nil"
    /\ cOutput = "nil"
    /\ name = <<>>
    /\ latest = LatestOf(commands)
    /\ pc = "idle"
    /\ args = <<>>
    /\ exit = "none"
    /\ grest = <<>>
    /\ cmd = NoCmd
    /\ rest = <<>>
    /\ ret = NilErr
    /\ written = <<>>
    /\ calls = <<>>

\* c.HelpCmd().Run(args) once more, right after the call has returned:
\* written, calls and ret are now those of the second call
HelpAgain ==
    /\ pc = "helped"
    /\ \E h \in {HelpRun(commands, cHelp, cFlags, cOutput, name, args)} :
           /\ written' = h.w
           /\ calls' = h.calls
           /\ ret' = h.ret
    /\ pc' = "helped again"
    /\ UNCHANGED <<args, exit, grest, cmd, rest>>
    /\ UNCHANGED <<commands, cHelp, cFlags, cOutput, name, latest>>

\* the second call has returned to the client
ReturnAgain ==
    /\ pc = "helped again"
    /\ pc' = "idle"
    /\ args' = <<>>
    /\ exit' = "none"
    /\ grest' = <<>>
    /\ cmd' = NoCmd
    /\ rest' = <<>>
    /\ ret' = NilErr
    /\ written' = <<>>
    /\ calls' = <<>>
    /\ UNCHANGED <<commands, cHelp, cFlags, cOutput, name, latest>>

NextHelp ==
    \/ \E id \in CmdIds : Register(id)
    \/ \E h \in HelpTexts : SetHelp(h)
    \/ \E fl \in {"nil", "set"} : SetFlags(fl)
    \/ \E out \in {"nil", "set"} : SetOutput(out)
    \/ Run(ArgLists)
    \/ \E as \in HelpArgs : HelpCall(as)
    \/ Return
    \/ HelpAgain
    \/ ReturnAgain

SpecHelp == InitHelp /\ [][NextHelp]_vars

(***************************************************************************)
(* What the calls wrote, read back from the stream.                        *)
(***************************************************************************)
\* the pieces of a sequence of writes
Texts(w) == [i \in 1..Len(w) |-> w[i].text]

\* the pieces that went to the stream dst
TextsTo(w, dst) == Texts(SelectSeq(w, LAMBDA x : x.dst = dst))

RECURSIVE After(_, _)
\* the pieces after the first piece p of ps; <<>> if there is no such piece
After(ps, p) ==
    IF ps = <<>> THEN <<>>
    ELSE IF Head(ps) = p THEN Tail(ps)
    ELSE After(Tail(ps), p)

\* whether the piece p occurs in ps
Has(ps, p) == \E i \in 1..Len(ps) : ps[i] = p

RECURSIVE UpTo(_, _)
\* the pieces of ps before the first piece p
UpTo(ps, p) ==
    IF ps = <<>> \/ Head(ps) = p THEN <<>>
    ELSE <<Head(ps)>> \o UpTo(Tail(ps), p)

RECURSIVE ListedNames(_)
\* the names of the lines "\t" name "\t\t" desc "\n" of a listing
ListedNames(ps) ==
    IF Len(ps) < 4 \/ Head(ps) # "\t" THEN <<>>
    ELSE LET n == UpTo(Tail(ps), "\t\t")
         IN  <<n>> \o ListedNames(From(ps, Len(n) + 4))

\* the names the "Commands:" listing of the call shows, in order
Listing == ListedNames(After(Texts(written), "\nCommands:\n"))

\* non-decreasing in Go's order of strings
NonDecreasing(ns) ==
    \A i \in 1..Len(ns) - 1 : ~StrLess(ns[i + 1], ns[i])

\* the names of the registry, in order
RegistryNames == [i \in 1..Len(commands) |-> Name(commands[i])]

(***************************************************************************)
(* The registry: C1, C2, C3.                                               *)
(***************************************************************************)
\* C1: the registry never contains two entries with the same name (a
\* Register of a name that is present replaces the entry).
C1_NoDuplicateNames ==
    \A i, j \in 1..Len(commands) :
        i # j => Name(commands[i]) # Name(commands[j])

\* C2: last registration wins: the command a Run selects for its subcommand
\* token, and executes, is the one registered most recently under that name.
C2_LastRegistrationWins ==
    (pc = "returned" /\ cmd # NoCmd) => cmd = latest[Name(cmd)]

\* C3: the registry is in non-decreasing order of the names, whatever the
\* order of the registrations, and so is every "Commands:" listing written.
C3_SortedByName ==
    /\ NonDecreasing(RegistryNames)
    /\ Has(Texts(written), "\nCommands:\n") => NonDecreasing(Listing)

\* C3's case: summary help has listed a registry of three different names
C3_Witness ==
    /\ pc = "helped"
    /\ args = <<>>
    /\ Len(commands) = 3
    /\ Cardinality({Name(commands[i]) : i \in 1..3}) = 3
    /\ Listing = RegistryNames

(***************************************************************************)
(* What the claims speak of, stated apart from the code of Run.            *)
(***************************************************************************)
\* the Run events of the call: the calls of a registered command's Run
RunEvents == SelectSeq(calls, LAMBDA c : c.op = "Run")

RECURSIVE Before(_, _)
\* the events of cs before its first event of the operation op
Before(cs, op) ==
    IF cs = <<>> \/ Head(cs).op = op THEN <<>>
    ELSE <<Head(cs)>> \o Before(Tail(cs), op)

\* the methods of registered commands the call has invoked
CommandEvents ==
    SelectSeq(calls, LAMBDA c : c.op \in {"Flags", "Run"} /\ c.cmd # "global")

\* some registered command has that name
IsRegistered(tok) == \E i \in 1..Len(commands) : Name(commands[i]) = tok

\* the arguments of Run after the program name
UserArgs == From(args, 1)

\* the global parse of the call: the global FlagSet on the user's arguments
GlobalParse == Parse(GlobalFormal(cFlags), UserArgs)

\* summary help, as the help command writes it for the Commander
SummaryHelp == HelpSummary(commands, cHelp, cFlags, cOutput, name).w

\* a token of the shape of a flag: one or two dashes and a name
IsFlagToken(s) ==
    /\ Len(s) >= 2
    /\ s[1] = "-"
    /\ LET body == IF s[2] = "-" THEN From(s, 2) ELSE From(s, 1)
       IN  body # <<>> /\ body[1] \notin {"-", "="}

\* the name a flag token gives, without its dashes and its =value
FlagName(s) ==
    LET body == IF s[2] = "-" THEN From(s, 2) ELSE From(s, 1)
    IN  SubSeq(body, 1, EqualsAt(body, 1))

\* whether a flag token carries its value after an =
HasEquals(s) ==
    LET body == IF s[2] = "-" THEN From(s, 2) ELSE From(s, 1)
    IN  EqualsAt(body, 1) < Len(body)

\* the value a flag token carries after its =
EqualsValue(s) ==
    LET body == IF s[2] = "-" THEN From(s, 2) ELSE From(s, 1)
    IN  From(body, EqualsAt(body, 1) + 1)

\* an explicit help flag: -h or -help, where no such flag is declared
IsHelpFlag(formal, s) ==
    /\ IsFlagToken(s)
    /\ FlagName(s) \in {<<"h">>, <<"h", "e", "l", "p">>}
    /\ Formal(formal, FlagName(s)) = {}

\* how many tokens at the head of ts are one declared flag with its value:
\* 0 if ts does not start with one
FlagUnit(formal, ts) ==
    IF ts = <<>> \/ ~IsFlagToken(ts[1]) THEN 0
    ELSE LET decl == Formal(formal, FlagName(ts[1]))
         IN  IF decl = {} THEN 0
             ELSE IF \E f \in decl : f.isBool
             THEN IF HasEquals(ts[1]) /\ EqualsValue(ts[1]) \notin BoolWords
                  THEN 0 ELSE 1
             ELSE IF HasEquals(ts[1]) THEN 1
             ELSE IF Len(ts) >= 2 THEN 2 ELSE 0

RECURSIVE FlagsOnly(_, _)
\* ts is a sequence of declared flags, each with its value, and no more
FlagsOnly(formal, ts) ==
    \/ ts = <<>>
    \/ /\ FlagUnit(formal, ts) > 0
       /\ FlagsOnly(formal, From(ts, FlagUnit(formal, ts)))

\* the detail help of a command: its trimmed help text, then the
\* "Options:" block when it declares a flag
DetailHelp(id) ==
    W(output(cOutput),
      (IF HelpOf(id) # <<>> THEN TrimSpace(HelpOf(id)) \o <<"\n">> ELSE <<>>)
        \o (IF FlagsOf(id) # {}
            THEN <<"\nOptions:\n">> \o PrintDefaults(FlagsOf(id))
            ELSE <<>>))

(***************************************************************************)
(* Dispatch: C4 to C10.                                                    *)
(***************************************************************************)
\* C4: for args = <<prog>> \o G \o <<n>> \o S \o R with G declared global flags,
\* n the name of a registered command, S flags that command declares and R
\* empty or starting with a non-flag token, Run parses G with the global
\* FlagSet, S with the command's, and calls that command's Run exactly once,
\* with exactly R.
C4_Partition ==
    pc = "returned" =>
        \A i \in 0..Len(UserArgs) - 1 : \A j \in 0..Len(UserArgs) - 1 - i :
            LET G == SubSeq(UserArgs, 1, i)
                n == UserArgs[i + 1]
                S == SubSeq(UserArgs, i + 2, i + 1 + j)
                R == From(UserArgs, i + 1 + j)
            IN  ( /\ FlagsOnly(GlobalFormal(cFlags), G)
                  /\ IsRegistered(n)
                  /\ FlagsOnly(FlagsOf(get(commands, n)), S)
                  /\ (R = <<>> \/ NonFlag(R[1])) )
                => /\ exit = "executed"
                   /\ grest = <<n>> \o S \o R
                   /\ cmd = get(commands, n)
                   /\ rest = R
                   /\ RunEvents = <<Call("Run", cmd, R)>>
                   /\ Before(calls, "Run")
                        = (IF cFlags # "nil"
                           THEN <<Call("Flags", "global", <<>>)>> ELSE <<>>)
                            \o <<Call("Flags", cmd, <<>>)>>

\* C4's case: a global flag, the name, a flag of the command with its value
\* and one more argument
C4_Witness ==
    /\ pc = "returned"
    /\ cFlags = "set"
    /\ UserArgs = << <<"-", "v">>, <<"t">>, <<"-", "f">>, <<"t">>, <<"t">> >>
    /\ cmd = "testA"
    /\ rest = << <<"t">> >>
    /\ RunEvents = <<Call("Run", "testA", << <<"t">> >>)>>

\* what the Run method of the selected command returns on Run's sub.Args()
Executed ==
    IF cmd = HelpId
    THEN HelpRun(commands, cHelp, cFlags, cOutput, name, rest).ret
    ELSE RunResult(cmd)

\* C5: when Run reaches the execution, it returns exactly what the command's
\* Run returned, and Run returns no error only when a command was executed
\* and returned none.
C5_ResultVerbatim ==
    pc = "returned" =>
        /\ exit = "executed" => ret = Executed
        /\ ret = NilErr =>
             /\ exit = "executed"
             /\ Len(RunEvents) = 1
             /\ Executed = NilErr

\* C5's case: the command returned an error of its own
C5_Witness ==
    /\ pc = "returned"
    /\ exit = "executed"
    /\ cmd = "testB"
    /\ ret = ErrCmd

\* C6: every Run that ends because of a problem with the arguments returns
\* flag.ErrHelp; any other error Run returns is the executed command's.
C6_ArgumentProblemsReturnErrHelp ==
    pc = "returned" =>
        /\ exit # "executed" => ret = ErrHelp
        /\ ret \notin {NilErr, ErrHelp} => exit = "executed"

\* the messages of the flag parser's own errors begin so
ParseErrorHeads ==
    { "bad flag syntax: ", "flag provided but not defined: -",
      "invalid boolean value \"", "flag needs an argument: -" }

C8_UnknownCommand ==
    ( /\ pc = "returned"
      /\ GlobalParse.err = NilErr
      /\ GlobalParse.rest # <<>>
      /\ ~IsRegistered(GlobalParse.rest[1]) )
        => /\ exit = "nocmd"
           /\ ret = ErrHelp
           /\ written
                = W(output(cOutput),
                    <<"Error: No such command: ", "\"">>
                      \o GlobalParse.rest[1] \o <<"\"", "\n\n">>)
                    \o SummaryHelp
           /\ CommandEvents = <<>>

\* C8's case: commands are registered, an output is set, the token is none
\* of their names
C8_Witness ==
    /\ pc = "returned"
    /\ exit = "nocmd"
    /\ cOutput = "set"
    /\ Len(commands) >= 2
    /\ grest[1] = <<"h", "e", "l", "p">>

\* C9: if no argument remains after the global flags, Run writes summary
\* help and returns flag.ErrHelp, and executes no command, whether or not
\* the help command is registered.
C9_NoArguments ==
    (pc = "returned" /\ GlobalParse.err = NilErr /\ GlobalParse.rest = <<>>)
        => /\ exit = "noargs"
           /\ ret = ErrHelp
           /\ written = SummaryHelp
           /\ Has(Texts(written), "Usage: ")
           /\ CommandEvents = <<>>

\* C9's case: only a global flag is given, and the help command is registered
C9_Witness ==
    /\ pc = "returned"
    /\ exit = "noargs"
    /\ UserArgs = << <<"-", "v">> >>
    /\ IsRegistered(Name(HelpId))

\* what C10 promises of a Run: the command's detail help, flag.ErrHelp, and
\* no execution
HelpedNotExecuted ==
    /\ exit = "subparse"
    /\ ret = ErrHelp
    /\ written = DetailHelp(cmd)
    /\ RunEvents = <<>>

\* C10 as claimed: an explicit help flag anywhere among the arguments after
\* a registered command's name makes Run write that command's detail help
\* and return flag.ErrHelp without executing the command.
C10_HelpFlagAnywhere ==
    ( /\ pc = "returned"
      /\ cmd # NoCmd
      /\ \E i \in 2..Len(grest) : IsHelpFlag(FlagsOf(cmd), grest[i]) )
    => HelpedNotExecuted

\* C10, amended: an explicit help flag that follows the command's name
\* directly, or after flags that command declares (each with its value),
\* makes Run write that command's detail help (the trimmed help text, then
\* the "Options:" block when the command declares a flag) and return
\* flag.ErrHelp without executing the command.
C10_HelpFlagReached ==
    ( /\ pc = "returned"
      /\ cmd # NoCmd
      /\ \E i \in 2..Len(grest) :
            /\ IsHelpFlag(FlagsOf(cmd), grest[i])
            /\ FlagsOnly(FlagsOf(cmd), SubSeq(grest, 2, i - 1)) )
    => HelpedNotExecuted

\* C10's case: the help flag after a flag of the command and its value
C10_Witness ==
    /\ pc = "returned"
    /\ cmd = "testA"
    /\ grest = << <<"t">>, <<"-", "f">>, <<"t">>, <<"-", "h">> >>
    /\ HelpedNotExecuted
    /\ Texts(written)
         = <<"H", "\n", "\nOptions:\n",
             "  -f string\n    \ta flag test (default \"test\")\n">>

(***************************************************************************)
(* Summary help as the claims describe it, stated apart from the code of   *)
(* the help command.                                                       *)
(***************************************************************************)
\* s without the white space at its two ends: from its first character that
\* is no white space to its last
Trimmed(s) ==
    LET solid == {i \in 1..Len(s) : s[i] \notin {" ", "\n"}}
    IN  IF solid = {} THEN <<>>
        ELSE SubSeq(s, CHOOSE i \in solid : \A j \in solid : i <= j,
                       CHOOSE i \in solid : \A j \in solid : j <= i)

\* the usage line for the invocation name nm
UsageLine(nm) ==
    <<"Usage: ">> \o nm
      \o (IF cFlags # "nil" THEN <<" [global options]">> ELSE <<>>)
      \o <<" <subcommand> [subcommand arguments]\n">>

\* the section of the program help text
HelpSection ==
    IF cHelp # <<>> THEN <<"\n">> \o Trimmed(cHelp) \o <<"\n">> ELSE <<>>

RECURSIVE ListingLines(_)
\* one line for each entry of cs, in the order of cs
ListingLines(cs) ==
    IF cs = <<>> THEN <<>>
    ELSE <<"\t">> \o Name(Head(cs)) \o <<"\t\t">> \o Desc(Head(cs)) \o <<"\n">>
           \o ListingLines(Tail(cs))

\* the "Commands:" section for the registry
CommandsSection == <<"\nCommands:\n">> \o ListingLines(commands)

\* the pieces of the global options block: its heading and the defaults
GlobalBlockPieces ==
    {"\nGlobal Options:\n"} \cup {f.defaults[1] : f \in GlobalFlags}

\* the writes of w that are no piece of the global options block
OutsideGlobalBlock(w) == SelectSeq(w, LAMBDA x : x.text \notin GlobalBlockPieces)

\* what C11 promises of a Run: summary help on the output (the usage line
\* with args[0], the trimmed help text, the listing of the registry),
\* flag.ErrHelp, no lookup and no execution
GlobalHelped ==
    /\ exit = "globalparse"
    /\ ret = ErrHelp
    /\ OutsideGlobalBlock(written)
         = W(output(cOutput),
             UsageLine(args[1]) \o HelpSection \o CommandsSection)
    /\ cmd = NoCmd
    /\ CommandEvents = <<>>

C12_AllToOutput ==
    pc \in {"returned", "helped"} =>
        \A i \in 1..Len(written) : written[i].dst = output(cOutput)

\* the pieces the call wrote to the Commander's output
SinkTexts == TextsTo(written, output(cOutput))

\* C13: whenever Run returns flag.ErrHelp, it has written help text to the
\* output before: summary help (its usage line) or, after the name of a
\* registered command, some detail help of that command.
C13_HelpWrittenBeforeErrHelp ==
    (pc = "returned" /\ ret = ErrHelp) =>
        \/ Has(SinkTexts, "Usage: ")
        \/ cmd # NoCmd /\ SinkTexts # <<>>

(***************************************************************************)
(* The order of a Run: C14.                                                *)
(***************************************************************************)
\* the global parse has succeeded and left these arguments
GlobalParsed == GlobalParse.err = NilErr /\ grest = GlobalParse.rest

\* the command name has been found in the registry
Found ==
    /\ GlobalParsed
    /\ grest # <<>>
    /\ cmd # NoCmd
    /\ \E i \in 1..Len(commands) : commands[i] = cmd
    /\ Name(cmd) = grest[1]

\* the Flags method of the selected command has been called
Declared == Found /\ Has(calls, Call("Flags", cmd, <<>>))

\* the subcommand's parse succeeds on what follows the command's name
SubParsed ==
    /\ Declared
    /\ Parse(FlagsOf(cmd), From(grest, 1)).err = NilErr
    /\ rest = Parse(FlagsOf(cmd), From(grest, 1)).rest

\* C14: in every Run, a command's Run is invoked at most once and on one
\* command, and only after, in this order, the global parse succeeded, the
\* name was found in the registry, that command's Flags was called on a new
\* FlagSet and the subcommand's parse succeeded; a Run that ends by a
\* failure exit has invoked no command's Run.
C14_NoPartialSuccess ==
    /\ [](/\ Len(RunEvents) <= 1
          /\ RunEvents # <<>> =>
               /\ RunEvents = <<Call("Run", cmd, rest)>>
               /\ exit = "executed"
          /\ (pc = "returned" /\ exit # "executed") => RunEvents = <<>>)
    /\ [][/\ Len(RunEvents') > Len(RunEvents) =>
               pc = "execute" /\ SubParsed /\ RunEvents = <<>>
          /\ (pc' = "execute" /\ pc # "execute") =>
               pc = "subparse" /\ Declared /\ SubParsed'
          /\ (pc' = "subparse" /\ pc # "subparse") =>
               pc = "declare" /\ Found /\ ~Declared /\ Declared'
          /\ (pc' = "declare" /\ pc # "declare") =>
               pc = "lookup" /\ GlobalParsed /\ cmd = NoCmd /\ Found'
          /\ (pc' = "lookup" /\ pc # "lookup") =>
               pc = "parse" /\ grest = <<>> /\ GlobalParsed'
         ]_vars

\* C14's case: a Run has gone through all its stages and executed testA
\* with an argument left by the subcommand's parse
C14_Witness ==
    /\ pc = "returned"
    /\ exit = "executed"
    /\ cFlags = "set"
    /\ UserArgs = << <<"-", "v">>, <<"t">>, <<"t">> >>
    /\ SubParsed
    /\ RunEvents = <<Call("Run", "testA", << <<"t">> >>)>>

(***************************************************************************)
(* The help command: C15 to C20.                                           *)
(***************************************************************************)
\* the help command has never been passed to Register
HelpNeverRegistered == latest[Name(HelpId)] = NoCmd

\* C15: on a Commander whose help command was never registered, no entry of
\* the registry is named "help" and a Run with the subcommand token "help"
\* takes the path of an unknown command (notice, summary help,
\* flag.ErrHelp); Run dispatches to the help command only after its
\* registration.
C15_HelpNotAutoRegistered ==
    /\ HelpNeverRegistered =>
         /\ ~IsRegistered(Name(HelpId))
         /\ ( /\ pc = "returned"
              /\ GlobalParse.err = NilErr
              /\ GlobalParse.rest # <<>>
              /\ GlobalParse.rest[1] = Name(HelpId) )
            => /\ exit = "nocmd"
               /\ ret = ErrHelp
               /\ written = NoSuchCommand(cOutput, Name(HelpId)) \o SummaryHelp
               /\ RunEvents = <<>>
    /\ (pc = "returned" /\ cmd = HelpId) => ~HelpNeverRegistered

\* C15's case: other commands are registered, the help command is not, and
\* Run was given "help" after a global flag
C15_Witness ==
    /\ pc = "returned"
    /\ HelpNeverRegistered
    /\ Len(commands) >= 1
    /\ cFlags = "set"
    /\ UserArgs = << <<"-", "v">>, <<"h", "e", "l", "p">> >>
    /\ exit = "nocmd"
    /\ ret = ErrHelp

HelpRan(as) ==
    \/ pc \in {"helped", "helped again"} /\ args = as
    \/ pc = "returned" /\ exit = "executed" /\ cmd = HelpId /\ rest = as

\* the name summary help shows
ShownName == IF name = <<>> THEN OsProg ELSE name

\* the global options block, when a declarator is set
GlobalBlock ==
    IF cFlags # "nil"
    THEN W(output(cOutput), <<"\nGlobal Options:\n">>)
           \o W("Stderr", <<"  -v\tverbose\n">>)
    ELSE <<>>

\* C17: the help command renders the Commander as it is when the help
\* command runs, not as it was when the help command was made and
\* registered: the commands registered since, and the help text, the
\* declarator and the name set since, are all in its output.
C17_HelpSeesCurrentState ==
    /\ HelpRan(<<>>) =>
         written = W(output(cOutput), UsageLine(ShownName) \o HelpSection)
                     \o GlobalBlock
                     \o W(output(cOutput), CommandsSection)
    /\ \A i \in 1..Len(commands) :
         HelpRan(<<Name(commands[i])>>) =>
            \E j \in 1..Len(commands) :
                /\ Name(commands[j]) = Name(commands[i])
                /\ written = DetailHelp(commands[j])

\* C17's case: the help command was registered first, on a Commander with
\* no help text, no declarator and no name; two commands, the help text and
\* the declarator came later, and the name with the Run that dispatched
\* to it
C17_Witness ==
    /\ pc = "returned"
    /\ HelpRan(<<>>)
    /\ commands = <<HelpId, "testA", "aux">>
    /\ cHelp = <<"\n", "E", "\n">>
    /\ cFlags = "set"
    /\ name = Prog
    /\ Listing = RegistryNames
    /\ Has(Texts(written), "E")
    /\ Has(Texts(written), " [global options]")

\* where in the log of the call the declarator was invoked
DeclaratorCalls ==
    {i \in 1..Len(calls) : calls[i] = Call("Flags", "global", <<>>)}

\* where in the log of the call a summary help begins
SummaryCalls ==
    {i \in 1..Len(calls) : calls[i] = Call("HelpRun", HelpId, <<>>)}

\* C18 as claimed: in a Run the declarator, when one is set, is invoked
\* exactly once, on every path, and never when none is set.
C18_DeclaratorOnce ==
    pc = "returned" =>
        Cardinality(DeclaratorCalls) = IF cFlags # "nil" THEN 1 ELSE 0

\* C18, amended: in a Run the declarator, when one is set, is invoked once
\* for the global FlagSet of the Run, before anything else, on every path,
\* and once more by each summary help the Run renders (at most one), for the
\* FlagSet whose defaults that help prints; when none is set it is never
\* invoked.
C18_DeclaratorOncePerFlagSet ==
    pc = "returned" =>
        /\ Cardinality(SummaryCalls) <= 1
        /\ DeclaratorCalls
             = IF cFlags # "nil"
               THEN {1} \cup {i + 1 : i \in SummaryCalls}
               ELSE {}

\* C18's case: a Run with a declarator and no arguments renders summary
\* help, and the declarator has been invoked twice
C18_Witness ==
    /\ pc = "returned"
    /\ cFlags = "set"
    /\ exit = "noargs"
    /\ UserArgs = <<>>
    /\ Cardinality(DeclaratorCalls) = 2

\* the call wrote one summary help and nothing else
SummaryOnly == HelpRan(<<>>) \/ (pc = "returned" /\ exit = "noargs")

\* the position of the first piece p in ps, 0 if there is none
PositionOf(ps, p) == Len(UpTo(ps, p)) + 1 - (IF Has(ps, p) THEN 0 ELSE Len(ps) + 1)

\* how often the piece p occurs in ps
Occurrences(ps, p) == Cardinality({i \in 1..Len(ps) : ps[i] = p})

\* C19: summary help consists, in this order, of the usage line, the
\* program help text, the global options block and the "Commands:" listing;
\* the fragment " [global options]" and the block "Global Options:" are
\* there iff a declarator is set, the help text section iff the help text
\* is not empty, and the heading "Commands:" always, followed by one line
\* for each entry of the registry, in the order of the registry.
C19_SummarySections ==
    SummaryOnly =>
        LET T == Texts(written)
            u == PositionOf(T, " <subcommand> [subcommand arguments]\n")
            g == PositionOf(T, "\nGlobal Options:\n")
            c == PositionOf(T, "\nCommands:\n")
            textEnd == IF g > 0 THEN g - 1 ELSE c - 1
        IN  /\ T[1] = "Usage: "
            /\ 1 < u /\ u < c
            /\ SubSeq(T, 2, u - 1)
                 \in {ShownName, ShownName \o <<" [global options]">>}
            /\ Has(T, " [global options]") <=> cFlags # "nil"
            /\ g > 0 <=> cFlags # "nil"
            /\ g > 0 => /\ u < g /\ g < c - 1
                        /\ SubSeq(T, g + 1, c - 1) = PrintDefaults(GlobalFlags)
            /\ textEnd > u <=> cHelp # <<>>
            /\ SubSeq(T, u + 1, textEnd) = HelpSection
            /\ Occurrences(T, "\nCommands:\n") = 1
            /\ From(T, c) = ListingLines(commands)
            /\ ListedNames(From(T, c)) = RegistryNames

\* C19's case: all four sections, for a registry of two commands
C19_Witness ==
    /\ pc = "helped"
    /\ args = <<>>
    /\ name = Prog
    /\ commands = <<HelpId, "testA">>
    /\ Texts(written)
         = <<"Usage: ", "p", "g", " [global options]",
             " <subcommand> [subcommand arguments]\n",
             "\n", "E", "\n",
             "\nGlobal Options:\n", "  -v\tverbose\n",
             "\nCommands:\n",
             "\t", "h", "e", "l", "p", "\t\t", "show help for commands", "\n",
             "\t", "t", "\t\t", "a simple test", "\n">>

\* the arguments the help command was run with, when the call is one of its
\* runs: the client's, or those Run's dispatch passed on
HelpRunArgs == IF pc = "returned" THEN rest ELSE args

\* the call is a run of the help command with at least one argument
HelpRanDetail ==
    /\ \/ pc \in {"helped", "helped again"}
       \/ pc = "returned" /\ exit = "executed" /\ cmd = HelpId
    /\ HelpRunArgs # <<>>

\* the Run events of commands other than the help command
OtherRunEvents == SelectSeq(calls, LAMBDA c : c.op = "Run" /\ c.cmd # HelpId)

\* C20: the help command run with a name that is not registered writes an
\* error line with that name, then summary help exactly once, and returns
\* flag.ErrHelp, and so does a Run that dispatches to it; run with a
\* registered name it returns no error and calls no command's Run.
C20_DetailMode ==
    HelpRanDetail =>
        LET n == HelpRunArgs[1]
            T == Texts(written)
        IN  IF ~IsRegistered(n)
            THEN /\ SubSeq(T, 1, 2 + Len(n) + 2)
                      = <<"Error: No such command: ", "\"">> \o n
                          \o <<"\"", "\n\n">>
                 /\ From(written, 2 + Len(n) + 2)
                      = W(output(cOutput), UsageLine(ShownName) \o HelpSection)
                          \o GlobalBlock
                          \o W(output(cOutput), CommandsSection)
                 /\ Occurrences(T, "Usage: ") = 1
                 /\ Cardinality(SummaryCalls) = 1
                 /\ ret = ErrHelp
            ELSE /\ ret = NilErr
                 /\ OtherRunEvents = <<>>
                 /\ ~Has(T, "Usage: ")

\* C20's case: Run has dispatched to the registered help command with the
\* name of a command that is not registered
C20_Witness ==
    /\ pc = "returned"
    /\ exit = "executed"
    /\ cmd = HelpId
    /\ rest = << <<"t">> >>
    /\ commands = <<HelpId>>
    /\ ret = ErrHelp
    /\ Occurrences(Texts(written), "Usage: ") = 1

=============================================================================
